---------------------------- MODULE Spec2Model ----------------------------
(***************************************************************************)
(* A model of active_requests: the resource type registry, the path        *)
(* template interpolator, the association compiler (belongs_to, has_one,   *)
(* has_many) and the record CRUD operations of src/active_requests.        *)
(*                                                                         *)
(* Strings are TLA+ strings; the operators below read them character by    *)
(* character (SubSeq on a string yields the one-character string).         *)
(***************************************************************************)
EXTENDS Integers, Sequences, FiniteSets, TLC

(***************************************************************************)
(* Characters and small string helpers                                     *)
(***************************************************************************)
Lower == {"a", "b", "c", "d", "e", "f", "g", "h", "i", "j", "k", "l", "m",
          "n", "o", "p", "q", "r", "s", "t", "u", "v", "w", "x", "y", "z"}

Upper == {"A", "B", "C", "D", "E", "F", "G", "H", "I", "J", "K", "L", "M",
          "N", "O", "P", "Q", "R", "S", "T", "U", "V", "W", "X", "Y", "Z"}

Digit == {"0", "1", "2", "3", "4", "5", "6", "7", "8", "9"}

\* the characters the regular expression class \w matches
WordChars == Lower \cup Upper \cup Digit \cup {"_"}

At(s, i) == SubSeq(s, i, i)

ToLower(c) ==
    CASE c = "A" -> "a" [] c = "B" -> "b" [] c = "C" -> "c" [] c = "D" -> "d"
      [] c = "E" -> "e" [] c = "F" -> "f" [] c = "G" -> "g" [] c = "H" -> "h"
      [] c = "I" -> "i" [] c = "J" -> "j" [] c = "K" -> "k" [] c = "L" -> "l"
      [] c = "M" -> "m" [] c = "N" -> "n" [] c = "O" -> "o" [] c = "P" -> "p"
      [] c = "Q" -> "q" [] c = "R" -> "r" [] c = "S" -> "s" [] c = "T" -> "t"
      [] c = "U" -> "u" [] c = "V" -> "v" [] c = "W" -> "w" [] c = "X" -> "x"
      [] c = "Y" -> "y" [] c = "Z" -> "z" [] OTHER -> c

ToUpper(c) ==
    CASE c = "a" -> "A" [] c = "b" -> "B" [] c = "c" -> "C" [] c = "d" -> "D"
      [] c = "e" -> "E" [] c = "f" -> "F" [] c = "g" -> "G" [] c = "h" -> "H"
      [] c = "i" -> "I" [] c = "j" -> "J" [] c = "k" -> "K" [] c = "l" -> "L"
      [] c = "m" -> "M" [] c = "n" -> "N" [] c = "o" -> "O" [] c = "p" -> "P"
      [] c = "q" -> "Q" [] c = "r" -> "R" [] c = "s" -> "S" [] c = "t" -> "T"
      [] c = "u" -> "U" [] c = "v" -> "V" [] c = "w" -> "W" [] c = "x" -> "X"
      [] c = "y" -> "Y" [] c = "z" -> "Z" [] OTHER -> c

(***************************************************************************)
(* inflection.underscore: "_" is put between an upper-case run and a       *)
(* following capitalised word, and between a lower-case letter or digit    *)
(* and an upper-case letter; "-" becomes "_"; the result is lower-cased.   *)
(***************************************************************************)
\* what the character c becomes, given its neighbours ("" at either end)
UnderscoreChar(c, prev, next) ==
    (IF /\ c \in Upper
        /\ \/ prev \in Lower \cup Digit
           \/ prev \in Upper /\ next \in Lower
     THEN "_" ELSE "")
    \o (IF c = "-" THEN "_" ELSE ToLower(c))

RECURSIVE UnderscoreFrom(_, _)
UnderscoreFrom(s, i) ==
    IF i > Len(s) THEN ""
    ELSE UnderscoreChar(At(s, i),
                        IF i > 1 THEN At(s, i - 1) ELSE "",
                        IF i < Len(s) THEN At(s, i + 1) ELSE "")
         \o UnderscoreFrom(s, i + 1)

Underscore(s) == UnderscoreFrom(s, 1)

(***************************************************************************)
(* inflection.pluralize, for the rules the names of this model fall under: *)
(* a word ending in "s" is unchanged, consonant + "y" becomes "ies", any   *)
(* other word gets an "s".                                                 *)
(***************************************************************************)
Pluralize(s) ==
    IF Len(s) = 0 THEN s
    ELSE IF At(s, Len(s)) = "s" THEN s
    ELSE IF /\ At(s, Len(s)) = "y"
            /\ Len(s) >= 2
            /\ At(s, Len(s) - 1) \notin {"a", "e", "i", "o", "u", "y"}
         THEN SubSeq(s, 1, Len(s) - 1) \o "ies"
    ELSE s \o "s"

(***************************************************************************)
(* inflection.camelize (upper-case first letter): the first letter and     *)
(* each letter after "_" are upper-cased and the "_" dropped.  It names    *)
(* the class a has_many association synthesizes.                           *)
(***************************************************************************)
RECURSIVE CamelizeFrom(_, _)
CamelizeFrom(s, i) ==
    IF i > Len(s) THEN ""
    ELSE (IF At(s, i) = "_" THEN ""
          ELSE IF i = 1 \/ At(s, i - 1) = "_" THEN ToUpper(At(s, i))
          ELSE At(s, i))
         \o CamelizeFrom(s, i + 1)

Camelize(s) == CamelizeFrom(s, 1)

(***************************************************************************)
(* Values                                                                  *)
(***************************************************************************)
\* Python's None
None == [none |-> TRUE]

\* dict.get(key, default)
Get(d, key, default) == IF key \in DOMAIN d THEN d[key] ELSE default

\* {**low, **high}: the entries of high override those of low
Merge(low, high) == high @@ low

\* the empty dict
Empty == <<>>

(***************************************************************************)
(* interpolate(template, **kwargs): re.sub(r":(\w+)", replace, template).  *)
(* One pass from left to right; a colon followed by a run of word          *)
(* characters is a placeholder whose key is the whole run; replace raises  *)
(* KeyError for the first key that kwargs does not hold.  The result is    *)
(* [ok |-> TRUE, value |-> string] or [ok |-> FALSE, key |-> missing key]. *)
(***************************************************************************)
RECURSIVE RunEnd(_, _)
RunEnd(t, i) ==
    \* index of the last character of the word run that starts at i
    IF i < Len(t) /\ At(t, i + 1) \in WordChars THEN RunEnd(t, i + 1) ELSE i

\* the regular expression matches at i
IsPlaceholderAt(t, i) ==
    /\ i < Len(t)
    /\ At(t, i) = ":"
    /\ At(t, i + 1) \in WordChars

\* match.group(1) of the match at i
KeyAt(t, i) == SubSeq(t, i + 1, RunEnd(t, i + 1))

RECURSIVE InterpolateFrom(_, _, _, _)

\* replace(match) for the match at i with the given key; done is the result
\* for the characters before i
Replace(t, kwargs, i, done, key) ==
    IF key \in DOMAIN kwargs
    THEN InterpolateFrom(t, kwargs, i + 1 + Len(key), done \o kwargs[key])
    ELSE [ok |-> FALSE, key |-> key]

InterpolateFrom(t, kwargs, i, done) ==
    IF i > Len(t) THEN [ok |-> TRUE, value |-> done]
    ELSE IF IsPlaceholderAt(t, i) THEN Replace(t, kwargs, i, done, KeyAt(t, i))
    ELSE InterpolateFrom(t, kwargs, i + 1, done \o At(t, i))

\* interpolate with re.sub(..., count=1): only the first placeholder is replaced
RECURSIVE InterpolateOnceFrom(_, _, _, _)
InterpolateOnceFrom(t, kwargs, i, done) ==
    IF i > Len(t) THEN [ok |-> TRUE, value |-> done]
    ELSE IF IsPlaceholderAt(t, i)
    THEN IF KeyAt(t, i) \in DOMAIN kwargs
         THEN [ok |-> TRUE,
               value |-> done \o kwargs[KeyAt(t, i)]
                              \o SubSeq(t, i + 1 + Len(KeyAt(t, i)), Len(t))]
         ELSE [ok |-> FALSE, key |-> KeyAt(t, i)]
    ELSE InterpolateOnceFrom(t, kwargs, i + 1, done \o At(t, i))

InterpolateOnce(t, kwargs) == InterpolateOnceFrom(t, kwargs, 1, "")

\* interpolate with a replace that leaves the placeholder of a key kwargs
\* lacks in place: kwargs.get(key, match.group(0))
RECURSIVE InterpolateLenientFrom(_, _, _, _)
InterpolateLenientFrom(t, kwargs, i, done) ==
    IF i > Len(t) THEN [ok |-> TRUE, value |-> done]
    ELSE IF IsPlaceholderAt(t, i) /\ KeyAt(t, i) \in DOMAIN kwargs
    THEN InterpolateLenientFrom(t, kwargs, i + 1 + Len(KeyAt(t, i)),
                                done \o kwargs[KeyAt(t, i)])
    ELSE InterpolateLenientFrom(t, kwargs, i + 1, done \o At(t, i))

InterpolateLenient(t, kwargs) == InterpolateLenientFrom(t, kwargs, 1, "")

Interpolate(t, kwargs) == InterpolateFrom(t, kwargs, 1, "")

(***************************************************************************)
(* urllib.parse.urljoin(base, url) for an absolute base "scheme://netloc"  *)
(* followed by an optional path, and a relative reference without scheme,  *)
(* netloc, query, fragment or dot segments: an empty reference gives the   *)
(* base, a reference starting with "/" replaces the base path, any other   *)
(* reference replaces the last segment of the base path.                   *)
(***************************************************************************)
RECURSIVE IndexOfFrom(_, _, _)
IndexOfFrom(s, c, i) ==
    \* first index >= i of character c in s, or 0
    IF i > Len(s) THEN 0
    ELSE IF At(s, i) = c THEN i
    ELSE IndexOfFrom(s, c, i + 1)

RECURSIVE LastIndexOf(_, _, _)
LastIndexOf(s, c, i) ==
    \* last index <= i of character c in s, or 0
    IF i < 1 THEN 0
    ELSE IF At(s, i) = c THEN i
    ELSE LastIndexOf(s, c, i - 1)

\* where the path of base starts (0: base has no path); the netloc starts
\* after "://"
PathStart(base) == IndexOfFrom(base, "/", IndexOfFrom(base, ":", 1) + 3)

\* scheme and netloc of base
Origin(base, pstart) == IF pstart = 0 THEN base ELSE SubSeq(base, 1, pstart - 1)

\* the path of base up to and with its last "/"
BaseDir(bpath, slash) == IF slash = 0 THEN "/" ELSE SubSeq(bpath, 1, slash)

BaseDirOf(bpath) == BaseDir(bpath, LastIndexOf(bpath, "/", Len(bpath)))

UrlJoinAt(base, url, pstart) ==
    IF url = "" THEN base
    ELSE IF At(url, 1) = "/" THEN Origin(base, pstart) \o url
    ELSE Origin(base, pstart)
         \o BaseDirOf(IF pstart = 0 THEN "" ELSE SubSeq(base, pstart, Len(base)))
         \o url

UrlJoin(base, url) == UrlJoinAt(base, url, PathStart(base))

(***************************************************************************)
(* A class is [cname, dict, inh, props]: its __name__, its own __dict__    *)
(* (vars(cls): data attributes only), the attributes it inherits from its  *)
(* bases, and the accessors (properties) the associations installed on it. *)
(***************************************************************************)
\* ActiveBase: url = "http://localhost", uid = "id" (name and path are only
\* annotated, so hasattr finds neither)
ActiveAttrs == [url |-> "http://localhost", uid |-> "id"]

HasAttr(cls, a) == a \in DOMAIN cls.dict \cup DOMAIN cls.inh

Attr(cls, a) == IF a \in DOMAIN cls.dict THEN cls.dict[a] ELSE cls.inh[a]

(***************************************************************************)
(* The registry: _registry, register and resolve.                          *)
(***************************************************************************)
\* register without the normalization of the name
RegisterRaw(reg, name, cls) == (name :> cls) @@ reg

Register(reg, name, cls) == (Underscore(name) :> cls) @@ reg

Resolve(reg, name) == Get(reg, Underscore(name), None)

(***************************************************************************)
(* Association definitions.  An AssociationDef is [shape, items]: a single *)
(* name ("str"), a set of names ("set") or a dict from name to options     *)
(* ("dict"); items maps each name to its options ({} for a name of a str   *)
(* or set).  Any other value (a class, a list, a number) has shape "other".*)
(***************************************************************************)
StrDef(n) == [shape |-> "str", items |-> (n :> Empty)]

SetDef(ns) == [shape |-> "set", items |-> [n \in ns |-> Empty]]

DictDef(d) == [shape |-> "dict", items |-> d]

OtherDef == [shape |-> "other", items |-> Empty]

\* AssociationBase._associate: the (name, options) pairs associate_method is
\* called with.  A str passes vars(cls) as the options, a set no options.
AssociateCalls(cls, def) ==
    CASE def.shape = "str"  -> {[other |-> n, options |-> cls.dict] : n \in DOMAIN def.items}
      [] def.shape = "set"  -> {[other |-> n, options |-> Empty] : n \in DOMAIN def.items}
      [] def.shape = "dict" -> {[other |-> n, options |-> def.items[n]] : n \in DOMAIN def.items}
      [] OTHER -> {}

\* the accessors a set of property entries installs: setattr(cls, name, property)
PropsOf(entries) ==
    [a \in {e.accessor : e \in entries} |-> CHOOSE e \in entries : e.accessor = a]

\* BelongsToAssociation.__associate: the property it installs, for the
\* underscored other and belongs_to_name
BelongsToProperty(cls, other, belongs_to_name, options) ==
    [accessor |-> belongs_to_name, kind |-> "belongs_to", other |-> other,
     template |-> Get(options, "belongs_to_path",
                      Pluralize(belongs_to_name) \o "/:" \o belongs_to_name
                          \o "_" \o Attr(cls, "uid"))]

BelongsToNamed(cls, other, options) ==
    BelongsToProperty(cls, other, Underscore(Get(options, "belongs_to_name", other)),
                      options)

BelongsToEntry(cls, other0, options) == BelongsToNamed(cls, Underscore(other0), options)

\* BelongsToAssociation.__init_subclass__
BelongsToProps(cls) ==
    IF HasAttr(cls, "belongs_to")
    THEN PropsOf({BelongsToEntry(cls, c.other, c.options) :
                    c \in AssociateCalls(cls, Attr(cls, "belongs_to"))})
    ELSE Empty

\* HasOneAssociation.__associate: the property it installs, for the
\* underscored other; the endpoint is joined with the class's url once,
\* when the class is declared
HasOneProperty(cls, other, has_one_name, options) ==
    [accessor |-> has_one_name, kind |-> "has_one", other |-> other,
     template |-> UrlJoin(Attr(cls, "url"),
                          Get(options, "has_one_path",
                              Attr(cls, "path") \o "/:" \o Attr(cls, "uid")
                                  \o "/" \o has_one_name))]

HasOneNamed(cls, other, options) ==
    HasOneProperty(cls, other, Get(options, "has_one_name", other), options)

HasOneEntry(cls, other0, options) == HasOneNamed(cls, Underscore(other0), options)

\* HasOneAssociation.__init_subclass__
HasOneProps(cls) ==
    IF HasAttr(cls, "has_one")
    THEN PropsOf({HasOneEntry(cls, c.other, c.options) :
                    c \in AssociateCalls(cls, Attr(cls, "has_one"))})
    ELSE Empty

(***************************************************************************)
(* Active.__init_subclass__(cls, url=...) for a class with the given name, *)
(* own dict, inherited attributes and inherited accessors: the result is   *)
(* [cls, registry].  The steps, in the order the code takes them: the url, *)
(* the name, the path, register, the associations (has_one before          *)
(* belongs_to: BelongsToAssociation calls super() first), the endpoint.    *)
(* register stores the class object, so the registry holds the class as    *)
(* the later steps leave it.                                               *)
(***************************************************************************)
\* cls.url = url or cls.url
WithUrl(cls, url) ==
    [cls EXCEPT !.dict = Merge(cls.dict,
                               [url |-> IF url # "" THEN url ELSE Attr(cls, "url")])]

\* if hasattr(cls, "name") ... else setattr(cls, "name", underscore(__name__))
WithName(cls) ==
    IF HasAttr(cls, "name") THEN cls
    ELSE [cls EXCEPT !.dict = Merge(cls.dict, [name |-> Underscore(cls.cname)])]

\* if hasattr(cls, "path") ... else setattr(cls, "path", pluralize(name))
WithPath(cls) ==
    IF HasAttr(cls, "path") THEN cls
    ELSE [cls EXCEPT !.dict = Merge(cls.dict, [path |-> Pluralize(Attr(cls, "name"))])]

\* super().__init_subclass__
WithAssociations(cls) ==
    [cls EXCEPT !.props = Merge(Merge(cls.props, HasOneProps(cls)), BelongsToProps(cls))]

\* if not hasattr(cls, "endpoint"): setattr(cls, "endpoint", urljoin(url, path))
WithEndpoint(cls) ==
    IF HasAttr(cls, "endpoint") THEN cls
    ELSE [cls EXCEPT !.dict =
              Merge(cls.dict,
                    [endpoint |-> UrlJoin(Attr(cls, "url"), Attr(cls, "path"))])]

\* register(name, cls)
Registered(cls, reg) ==
    [cls |-> cls, registry |-> Register(reg, Attr(cls, "name"), cls)]

InitSubclass(cname, dict, inh, props, url, reg) ==
    Registered(
        WithEndpoint(WithAssociations(WithPath(WithName(WithUrl(
            [cname |-> cname, dict |-> dict, inh |-> inh, props |-> props], url))))),
        reg)

(***************************************************************************)
(* Records.  A record is [cls, fields, attrs]: its class, its dict items   *)
(* and its instance attributes (the classes has_many synthesized).         *)
(*                                                                         *)
(* New(cls, fields, reg) constructs a record: HasManyAssociation.__init__  *)
(* runs __associate for each has_many name.  The result is                 *)
(* [err, key, rec, registry]; err is "" or the exception raised.           *)
(***************************************************************************)
\* setattr(self, has_many_name, Association)
HasManySet(r, has_many_name, made) ==
    [err |-> "", key |-> "",
     rec |-> [r EXCEPT !.attrs = Merge(r.attrs, has_many_name :> made.cls)],
     registry |-> made.registry]

\* type(association_name, bases, {**vars(Association), url, session, name, path}):
\* vars(None) raises TypeError; the new class runs Active.__init_subclass__
HasManyType(r, Association, has_many_name, has_many_path, reg) ==
    IF ~has_many_path.ok
    THEN [err |-> "KeyError", key |-> has_many_path.key, rec |-> r, registry |-> reg]
    ELSE IF Association = None
    THEN [err |-> "TypeError", key |-> "", rec |-> r, registry |-> reg]
    ELSE HasManySet(r, has_many_name,
             InitSubclass(Camelize(Attr(r.cls, "name") \o "_" \o has_many_name),
                          Merge(Association.dict,
                                [url  |-> Attr(r.cls, "url"),
                                 name |-> has_many_name,
                                 path |-> has_many_path.value]),
                          Association.inh, Association.props, "", reg))

\* has_many_path = interpolate(has_many_path, **self); Association = resolve(other)
HasManyNamed(r, other, has_many_name, options, reg) ==
    HasManyType(r, Resolve(reg, other), has_many_name,
                Interpolate(Get(options, "has_many_path",
                                Attr(r.cls, "path") \o "/:" \o Attr(r.cls, "uid")
                                    \o "/" \o has_many_name),
                            r.fields),
                reg)

HasManyOther(r, other, options, reg) ==
    HasManyNamed(r, other, Get(options, "has_many_name", Pluralize(other)), options, reg)

\* HasManyAssociation.__associate on the record r: [err, key, rec, registry]
HasManyAssociate(r, other0, options, reg) ==
    HasManyOther(r, Underscore(other0), options, reg)

RECURSIVE HasManyAll(_, _, _)

\* the calls after the call c ended with step
HasManyRest(step, calls, c) ==
    IF step.err # "" THEN step
    ELSE HasManyAll(step.rec, calls \ {c}, step.registry)

HasManyCall(r, calls, reg, c) ==
    HasManyRest(HasManyAssociate(r, c.other, c.options, reg), calls, c)

\* self._associate(has_many, self.__associate)
HasManyAll(r, calls, reg) ==
    IF calls = {} THEN [err |-> "", key |-> "", rec |-> r, registry |-> reg]
    ELSE HasManyCall(r, calls, reg, CHOOSE c \in calls : TRUE)

\* HasManyAssociation.__init__
New(cls, fields, reg) ==
    IF HasAttr(cls, "has_many")
    THEN HasManyAll([cls |-> cls, fields |-> fields, attrs |-> Empty],
                    AssociateCalls(cls, Attr(cls, "has_many")), reg)
    ELSE [err |-> "", key |-> "",
          rec |-> [cls |-> cls, fields |-> fields, attrs |-> Empty],
          registry |-> reg]

(***************************************************************************)
(* The transport.  A request is [method, url, body, params]; a response is *)
(* [status, body].  Response.raise_for_status raises HTTPError for a       *)
(* status from 400 to 599 and for no other status.                         *)
(***************************************************************************)
Request(method, url, body, params) ==
    [method |-> method, url |-> url, body |-> body, params |-> params]

RaisesForStatus(status) == status \in 400..599

(***************************************************************************)
(* The outcome of an operation: the requests it sent, the exception it     *)
(* raised (err, "" for none; key is the key a KeyError names), the status  *)
(* of the response it got (0: no request was answered), the value it       *)
(* returned, the record it ran on and the registry, both as it left them.  *)
(* A value is [kind |-> "none"], [kind |-> "record", rec |-> r],           *)
(* [kind |-> "raw", body |-> b] (a decoded body, no Record) or             *)
(* [kind |-> "list", items |-> <<r, ...>>].                                *)
(***************************************************************************)
NoValue == [kind |-> "none"]

RecordValue(r) == [kind |-> "record", rec |-> r]

RawValue(b) == [kind |-> "raw", body |-> b]

ListValue(rs) == [kind |-> "list", items |-> rs]

Outcome(sent, err, key, status, value, r, reg) ==
    [sent |-> sent, err |-> err, key |-> key, status |-> status,
     value |-> value, rec |-> r, registry |-> reg]

\* a constructor call's result as a returned value
Constructed(made) ==
    [err |-> made.err, key |-> made.key,
     value |-> IF made.err = "" THEN RecordValue(made.rec) ELSE NoValue,
     registry |-> made.registry]

\* fget returning the decoded body whatever resolve returned
MaterializeRaw(cls, result, reg) ==
    [err |-> "", key |-> "", value |-> RawValue(result), registry |-> reg]

\* "cls(**result) if cls else result": [err, key, value, registry]
Materialize(cls, result, reg) ==
    IF cls = None
    THEN [err |-> "", key |-> "", value |-> RawValue(result), registry |-> reg]
    ELSE Constructed(New(cls, result, reg))

RECURSIVE MaterializeAll(_, _, _, _)

MaterializeNext(cls, body, done, made) ==
    IF made.err # ""
    THEN [err |-> made.err, key |-> made.key, value |-> NoValue,
          registry |-> made.registry]
    ELSE MaterializeAll(cls, Tail(body), made.registry, Append(done, made.rec))

\* "[cls(**kwargs) for kwargs in body]": [err, key, value, registry]
MaterializeAll(cls, body, reg, done) ==
    IF body = <<>>
    THEN [err |-> "", key |-> "", value |-> ListValue(done), registry |-> reg]
    ELSE MaterializeNext(cls, body, done, New(cls, Head(body), reg))

\* the outcome of an operation that sent one request and returns what it
\* made of the response body
Returned(request, made, status, r) ==
    Outcome(<<request>>, made.err, made.key, status, made.value, r, made.registry)

\* the outcome of an operation that sends one request to an interpolated
\* endpoint, calls raise_for_status and returns nothing
Sent(method, endpoint, body, r, resp, reg) ==
    IF ~endpoint.ok
    THEN Outcome(<<>>, "KeyError", endpoint.key, 0, NoValue, r, reg)
    ELSE IF RaisesForStatus(resp.status)
    THEN Outcome(<<Request(method, endpoint.value, body, None)>>, "HTTPError", "",
                 resp.status, NoValue, r, reg)
    ELSE Outcome(<<Request(method, endpoint.value, body, None)>>, "", "",
                 resp.status, NoValue, r, reg)

(***************************************************************************)
(* The accessors of belongs_to and has_one: fget, fset, fdel.              *)
(***************************************************************************)
\* belongs_to: endpoint = urljoin(self.url, path); endpoint = interpolate(endpoint)
Rejoined(r, path) ==
    IF ~path.ok THEN path
    ELSE Interpolate(UrlJoin(Attr(r.cls, "url"), path.value), r.fields)

\* the endpoint the three functions of an accessor build, as Interpolate's
\* result: belongs_to interpolates the path, joins it to self.url and
\* interpolates the joined endpoint again; has_one interpolates the endpoint
\* joined at declaration
AccessorEndpoint(r, entry) ==
    IF entry.kind = "belongs_to"
    THEN Rejoined(r, Interpolate(entry.template, r.fields))
    ELSE Interpolate(entry.template, r.fields)

\* fget, from the endpoint on
Fetched(endpoint, r, entry, resp, reg) ==
    IF ~endpoint.ok
    THEN Outcome(<<>>, "KeyError", endpoint.key, 0, NoValue, r, reg)
    ELSE IF RaisesForStatus(resp.status)
    THEN Outcome(<<Request("GET", endpoint.value, None, None)>>, "HTTPError", "",
                 resp.status, NoValue, r, reg)
    ELSE Returned(Request("GET", endpoint.value, None, None),
                  Materialize(Resolve(reg, entry.other), resp.body, reg),
                  resp.status, r)

\* fget
AccessorGet(r, entry, resp, reg) ==
    Fetched(AccessorEndpoint(r, entry), r, entry, resp, reg)

\* fset
AccessorSet(r, entry, body, resp, reg) ==
    Sent("PUT", AccessorEndpoint(r, entry), body, r, resp, reg)

\* fdel
AccessorDel(r, entry, resp, reg) ==
    Sent("DELETE", AccessorEndpoint(r, entry), None, r, resp, reg)

(***************************************************************************)
(* The class methods of Active.  r is the record of the caller, left as    *)
(* it is.                                                                  *)
(***************************************************************************)
\* Active.all
All(cls, r, resp, reg) ==
    IF RaisesForStatus(resp.status)
    THEN Outcome(<<Request("GET", Attr(cls, "endpoint"), None, None)>>, "HTTPError", "",
                 resp.status, NoValue, r, reg)
    ELSE Returned(Request("GET", Attr(cls, "endpoint"), None, None),
                  MaterializeAll(cls, resp.body, reg, <<>>), resp.status, r)

\* Active.where: the status of the response is not looked at
Where(cls, conditions, r, resp, reg) ==
    Returned(Request("GET", Attr(cls, "endpoint"), None, conditions),
             MaterializeAll(cls, resp.body, reg, <<>>), resp.status, r)

\* next(iter(items[k - 1:]), None)
NthOf(out, k) ==
    IF out.err # "" THEN out
    ELSE [out EXCEPT !.value = IF k <= Len(out.value.items)
                               THEN RecordValue(out.value.items[k])
                               ELSE NoValue]

\* Active.find_by
FindBy(cls, conditions, r, resp, reg) == NthOf(Where(cls, conditions, r, resp, reg), 1)

\* Active.first, second, third, fourth, fifth (k = 1..5) and forty_two (k = 42)
Nth(cls, k, r, resp, reg) == NthOf(All(cls, r, resp, reg), k)

\* Active.find
Find(cls, uid, r, resp, reg) ==
    IF RaisesForStatus(resp.status)
    THEN Outcome(<<Request("GET", Attr(cls, "endpoint") \o "/" \o uid, None, None)>>,
                 "HTTPError", "", resp.status, NoValue, r, reg)
    ELSE Returned(Request("GET", Attr(cls, "endpoint") \o "/" \o uid, None, None),
                  Constructed(New(cls, resp.body, reg)), resp.status, r)

\* Active.create
Create(cls, kwargs, r, resp, reg) ==
    IF RaisesForStatus(resp.status)
    THEN Outcome(<<Request("POST", Attr(cls, "endpoint"), kwargs, None)>>,
                 "HTTPError", "", resp.status, NoValue, r, reg)
    ELSE Returned(Request("POST", Attr(cls, "endpoint"), kwargs, None),
                  Constructed(New(cls, resp.body, reg)), resp.status, r)

(***************************************************************************)
(* The instance methods of Active.                                         *)
(***************************************************************************)
\* f"{self.endpoint}/:{self.uid}"
InstanceTemplate(r) == Attr(r.cls, "endpoint") \o "/:" \o Attr(r.cls, "uid")

\* the endpoint of save and destroy
InstanceEndpoint(r) == Interpolate(InstanceTemplate(r), r.fields)

\* Active.destroy
Destroy(r, resp, reg) == Sent("DELETE", InstanceEndpoint(r), None, r, resp, reg)

\* Active.save
Save(r, resp, reg) == Sent("PUT", InstanceEndpoint(r), r.fields, r, resp, reg)

\* Active.update: dict.update(**kwargs), then save
Update(r, kwargs, resp, reg) ==
    Save([r EXCEPT !.fields = Merge(r.fields, kwargs)], resp, reg)

(***************************************************************************)
(* The application: the class statements it may execute, the inputs it     *)
(* passes and the responses the transport may give.                        *)
(***************************************************************************)
\* the longest JSON array a response carries
MaxBody == 1

\* how many times in a row one accessor operation is repeated on a record
MaxRepeat == 2

\* how many times the application calls register directly
MaxRegs == 3

\* the longest template tail the application interpolates
MaxLen == 4

\* "class C(Active, url=url): body": url "" stands for no url argument.
\* Catalogue holds the classes with accessors, QueryCatalogue those the
\* application queries.
Catalogue ==
    { [cname |-> "Author",  url |-> "", body |-> [has_one |-> SetDef({"book"})]],
      [cname |-> "Book",    url |-> "", body |-> [belongs_to |-> StrDef("author")]],
      [cname |-> "Book",    url |-> "http://host:8080/",
                                      body |-> [belongs_to |-> StrDef("author")]] }

QueryCatalogue ==
    { [cname |-> "Post",    url |-> "", body |-> [has_many |-> StrDef("comment")]],
      [cname |-> "Comment", url |-> "", body |-> Empty] }

\* the keyword arguments of a record's construction: str(value) by field
FieldMaps ==
    { Empty,
      [id |-> "7"],
      [id |-> "7", author_id |-> "7"],
      [id |-> "7", author_id |-> ":id"] }

UpdateArgs == {[text |-> "x"]}

CreateArgs == {[text |-> "x"]}

Conditions == {[id |-> "7"]}

FindUids == {"7"}

\* first, second and forty_two; third, fourth and fifth are second's code
\* with another index
NthIndexes == {1, 2, 42}

\* the statuses of the final responses: a success, a client error and a
\* server error
Statuses == {200, 404, 500}

\* the JSON objects and arrays a response body may be
ObjBodies == {[id |-> "7"], Empty}

ListBodies == UNION {[1..n -> ObjBodies] : n \in 0..MaxBody}

ObjResponses == [status : Statuses, body : ObjBodies]

ListResponses == [status : Statuses, body : ListBodies]

StatusResponses == [status : Statuses, body : {Empty}]

OkResponses == [status : {200}, body : {Empty}]

AccessorNames == {"author", "book"}

\* the names and the classes the application passes to register and resolve
RegNames == {"Post", "post", "BlogPost", "blog_post"}

RegTypes ==
    { [cname |-> n, dict |-> Empty, inh |-> ActiveAttrs, props |-> Empty] :
        n \in {"Post", "Article"} }

\* the templates the application interpolates: a path segment followed by
\* every string of at most MaxLen characters of Alphabet
Alphabet == {":", "a", "b"}

RECURSIVE StringsOfLen(_)
StringsOfLen(n) ==
    IF n = 0 THEN {""} ELSE {s \o c : s \in StringsOfLen(n - 1), c \in Alphabet}

TemplatePrefix == "x/"

Templates == {TemplatePrefix \o s : s \in UNION {StringsOfLen(n) : n \in 0..MaxLen}}

\* the field mappings it interpolates them against
MapKeys == {"a", "ab"}

MapValues == {"7", ":a"}

Mappings == UNION {[ks -> MapValues] : ks \in SUBSET MapKeys}

InterpAccessors == {"owner", "part"}

\* class Item(Active): uid = "a"; belongs_to = {"owner": {"belongs_to_path": t}};
\* has_one = {"part": {"has_one_path": t}}
ItemBody(t) ==
    [uid |-> "a",
     belongs_to |-> DictDef("owner" :> [belongs_to_path |-> t]),
     has_one |-> DictDef("part" :> [has_one_path |-> t])]

(***************************************************************************)
(* State                                                                   *)
(***************************************************************************)
VARIABLES
    registry,   \* _registry
    declared,   \* the classes the application declared
    forward,    \* history: the accessors declared before their target was registered
    rec,        \* the record the application holds, or None
    sent,       \* the requests the last operation sent
    last,       \* the last operation and how it ended
    regLog      \* history: the register calls made directly, <<[name, cls], ...>>

vars == <<registry, declared, forward, rec, sent, last, regLog>>

\* what `last` holds after an operation
Done(op, target, entry, arg, before, out, count) ==
    [op |-> op, target |-> target, entry |-> entry, arg |-> arg, before |-> before,
     err |-> out.err, key |-> out.key, status |-> out.status, value |-> out.value,
     count |-> count]

NoOutcome == Outcome(<<>>, "", "", 0, NoValue, None, Empty)

Init ==
    /\ registry = Empty
    /\ declared = {}
    /\ forward = {}
    /\ rec = None
    /\ sent = <<>>
    /\ last = Done("init", None, None, None, None, NoOutcome, 0)
    /\ regLog = <<>>

\* the classes the application can name: those it declared and those
\* has_many set on the record it holds
ClassTargets ==
    declared \cup (IF rec = None THEN {} ELSE {rec.attrs[a] : a \in DOMAIN rec.attrs})

\* an operation's effect on the state
Finish(op, target, entry, arg, out, count) ==
    /\ registry' = out.registry
    /\ rec' = out.rec
    /\ sent' = out.sent
    /\ last' = Done(op, target, entry, arg, IF rec = None THEN None ELSE rec.fields,
                    out, count)
    /\ UNCHANGED <<declared, forward, regLog>>

\* the accessors of cls whose target reg does not resolve
Unresolved(cls, reg) ==
    { [cls |-> cls, accessor |-> a] :
        a \in {x \in DOMAIN cls.props : Resolve(reg, cls.props[x].other) = None} }

\* the state after a class statement made the class and the registry of made
Declared(made) ==
    /\ made.cls \notin declared
    /\ declared' = declared \cup {made.cls}
    /\ registry' = made.registry
    /\ forward' = forward \cup Unresolved(made.cls, made.registry)
    /\ sent' = <<>>
    /\ last' = Done("declare", made.cls, None, None, None, NoOutcome, 0)
    /\ UNCHANGED <<rec, regLog>>

\* class C(Active, url=...): ...
Declare(d) ==
    Declared(InitSubclass(d.cname, d.body, ActiveAttrs, Empty, d.url, registry))

\* the outcome of a constructor call; when it raises, the application keeps
\* the record it held
Built(made) ==
    Outcome(<<>>, made.err, made.key, 0, NoValue,
            IF made.err = "" THEN made.rec ELSE rec, made.registry)

\* rec = C(**fields)
NewRecord(c, fields) ==
    Finish("new", c, None, fields, Built(New(c, fields, registry)), 0)

DoAll(c, resp) == Finish("all", c, None, None, All(c, rec, resp, registry), 0)

DoWhere(c, conditions, resp) ==
    Finish("where", c, None, conditions, Where(c, conditions, rec, resp, registry), 0)

DoFindBy(c, conditions, resp) ==
    Finish("find_by", c, None, conditions, FindBy(c, conditions, rec, resp, registry), 0)

DoNth(c, k, resp) ==
    Finish("nth", c, None, [k |-> k], Nth(c, k, rec, resp, registry), 0)

DoFind(c, uid, resp) ==
    Finish("find", c, None, [uid |-> uid], Find(c, uid, rec, resp, registry), 0)

DoCreate(c, kwargs, resp) ==
    Finish("create", c, None, kwargs, Create(c, kwargs, rec, resp, registry), 0)

DoSave(resp) ==
    /\ rec # None
    /\ Finish("save", None, None, None, Save(rec, resp, registry), 0)

DoUpdate(kwargs, resp) ==
    /\ rec # None
    /\ Finish("update", None, None, kwargs, Update(rec, kwargs, resp, registry), 0)

DoDestroy(resp) ==
    /\ rec # None
    /\ Finish("destroy", None, None, None, Destroy(rec, resp, registry), 0)

\* how many times in a row the operation op of accessor entry has now run
Repeat(op, entry) ==
    IF last.op = op /\ last.entry = entry THEN last.count + 1 ELSE 1

\* rec.accessor
DoGet(a, resp) ==
    /\ rec # None
    /\ a \in DOMAIN rec.cls.props
    /\ Repeat("get", rec.cls.props[a]) <= MaxRepeat
    /\ Finish("get", None, rec.cls.props[a], None,
              AccessorGet(rec, rec.cls.props[a], resp, registry),
              Repeat("get", rec.cls.props[a]))

\* rec.accessor = body
DoSet(a, body, resp) ==
    /\ rec # None
    /\ a \in DOMAIN rec.cls.props
    /\ Repeat("set", rec.cls.props[a]) <= MaxRepeat
    /\ Finish("set", None, rec.cls.props[a], body,
              AccessorSet(rec, rec.cls.props[a], body, resp, registry),
              Repeat("set", rec.cls.props[a]))

\* del rec.accessor
DoDel(a, resp) ==
    /\ rec # None
    /\ a \in DOMAIN rec.cls.props
    /\ Repeat("del", rec.cls.props[a]) <= MaxRepeat
    /\ Finish("del", None, rec.cls.props[a], None,
              AccessorDel(rec, rec.cls.props[a], resp, registry),
              Repeat("del", rec.cls.props[a]))

\* the application declares resource types with accessors, constructs
\* records and uses the accessors and the instance methods
Next ==
    \/ \E d \in Catalogue : Declare(d)
    \/ \E c \in declared, f \in FieldMaps : NewRecord(c, f)
    \/ \E resp \in StatusResponses : DoSave(resp)
    \/ \E kw \in UpdateArgs, resp \in StatusResponses : DoUpdate(kw, resp)
    \/ \E resp \in StatusResponses : DoDestroy(resp)
    \/ \E a \in AccessorNames, resp \in ObjResponses : DoGet(a, resp)
    \/ \E a \in AccessorNames, b \in ObjBodies, resp \in StatusResponses : DoSet(a, b, resp)
    \/ \E a \in AccessorNames, resp \in StatusResponses : DoDel(a, resp)

Spec == Init /\ [][Next]_vars

\* the application declares resource types with has_many, constructs records
\* and calls the class methods, those of the has_many classes included
NextQuery ==
    \/ \E d \in QueryCatalogue : Declare(d)
    \/ \E c \in declared, f \in FieldMaps : NewRecord(c, f)
    \/ \E c \in ClassTargets, resp \in ListResponses : DoAll(c, resp)
    \/ \E c \in ClassTargets, q \in Conditions, resp \in ListResponses : DoWhere(c, q, resp)
    \/ \E c \in ClassTargets, q \in Conditions, resp \in ListResponses : DoFindBy(c, q, resp)
    \/ \E c \in ClassTargets, k \in NthIndexes, resp \in ListResponses : DoNth(c, k, resp)
    \/ \E c \in ClassTargets, u \in FindUids, resp \in ObjResponses : DoFind(c, u, resp)
    \/ \E c \in ClassTargets, kw \in CreateArgs, resp \in ObjResponses : DoCreate(c, kw, resp)

SpecQuery == Init /\ [][NextQuery]_vars

(***************************************************************************)
(* The registry alone: the application calls register and resolve.         *)
(***************************************************************************)
ClassValue(c) == IF c = None THEN NoValue ELSE [kind |-> "class", cls |-> c]

\* register(n, c)
DoRegister(n, c) ==
    /\ Len(regLog) < MaxRegs
    /\ registry' = Register(registry, n, c)
    /\ regLog' = Append(regLog, [name |-> n, cls |-> c])
    /\ sent' = <<>>
    /\ last' = Done("register", c, None, [name |-> n], None, NoOutcome, 0)
    /\ UNCHANGED <<declared, forward, rec>>

\* resolve(n)
DoResolve(n) ==
    Finish("resolve", None, None, [name |-> n],
           Outcome(<<>>, "", "", 0, ClassValue(Resolve(registry, n)), rec, registry), 0)

NextReg ==
    \/ \E n \in RegNames, c \in RegTypes : DoRegister(n, c)
    \/ \E n \in RegNames : DoResolve(n)

SpecReg == Init /\ [][NextReg]_vars

(***************************************************************************)
(* The interpolator and its callers: the application holds a record of a   *)
(* class whose belongs_to and has_one paths are a template of Templates,   *)
(* with the fields of a mapping of Mappings, and calls interpolate, the    *)
(* accessors, save and destroy.                                            *)
(***************************************************************************)
\* the state after "class Item" made the class and the registry of made and
\* the application constructed Item(**m)
InitHolding(made, m) ==
    /\ registry = made.registry
    /\ declared = {made.cls}
    /\ forward = Unresolved(made.cls, made.registry)
    /\ rec = [cls |-> made.cls, fields |-> m, attrs |-> Empty]
    /\ sent = <<>>
    /\ last = Done("new", made.cls, None, m, None, NoOutcome, 0)
    /\ regLog = <<>>

InitInterp ==
    \E t \in Templates, m \in Mappings :
        InitHolding(InitSubclass("Item", ItemBody(t), ActiveAttrs, Empty, "", Empty), m)

\* the templates the code of the record's class passes to interpolate
CallTemplates ==
    {rec.cls.props[a].template : a \in DOMAIN rec.cls.props} \cup {InstanceTemplate(rec)}

\* the outcome of interpolate(t, **kwargs) called by the application
Interpolated(res) ==
    IF res.ok
    THEN Outcome(<<>>, "", "", 0, RawValue(res.value), rec, registry)
    ELSE Outcome(<<>>, "KeyError", res.key, 0, NoValue, rec, registry)

\* interpolate(t, **rec)
CallInterpolate(t) ==
    Finish("interpolate", None, None, [template |-> t], Interpolated(Interpolate(t, rec.fields)), 0)

NextInterp ==
    \/ \E t \in CallTemplates : CallInterpolate(t)
    \/ \E resp \in OkResponses : DoSave(resp)
    \/ \E resp \in OkResponses : DoDestroy(resp)
    \/ \E a \in InterpAccessors, resp \in OkResponses : DoGet(a, resp)
    \/ \E a \in InterpAccessors, resp \in OkResponses : DoSet(a, resp.body, resp)
    \/ \E a \in InterpAccessors, resp \in OkResponses : DoDel(a, resp)

SpecInterp == InitInterp /\ [][NextInterp]_vars

(***************************************************************************)
(* Declarations: the application declares resource types, some deriving    *)
(* from a declared type, with association definitions of every shape,      *)
(* constructs records, changes their identifier with update and reads the  *)
(* attributes has_many set on them.                                        *)
(***************************************************************************)
\* "class C(Base, url=url): body": base "" stands for Active
\*   class Comment(Active): belongs_to = {"post"}
\*   class Post(Active): has_many = "comment"
\*   class News(Active): pass
\*   class Feed(Active): has_many = {"news": {}}
\*   class Odd(Active, url="http://api"): belongs_to = has_one = has_many = 1
\*   class Reply(Comment): path = "replies"
DeclCatalogue ==
    { [cname |-> "Comment", base |-> "", url |-> "",
       body |-> [belongs_to |-> SetDef({"post"})]],
      [cname |-> "Post", base |-> "", url |-> "",
       body |-> [has_many |-> StrDef("comment")]],
      [cname |-> "News", base |-> "", url |-> "", body |-> Empty],
      [cname |-> "Feed", base |-> "", url |-> "",
       body |-> [has_many |-> DictDef("news" :> Empty)]],
      [cname |-> "Odd", base |-> "", url |-> "http://api",
       body |-> [belongs_to |-> OtherDef, has_one |-> OtherDef, has_many |-> OtherDef]],
      [cname |-> "Reply", base |-> "Comment", url |-> "",
       body |-> [path |-> "replies"]] }

\* the keyword arguments of the constructor calls and of update
DeclFieldMaps == {Empty, [id |-> "7"]}

DeclUpdateArgs == {[id |-> "8"]}

\* the names of the attributes has_many sets
ChildNames == {"comments", "news"}

\* the attributes a class statement with the base class b inherits:
\* attribute lookup goes through vars(b) before b's own bases
Inherited(b) == Merge(b.inh, b.dict)

\* class C(b, url=...): Active.__init_subclass__ runs on a class that
\* inherits the attributes and the accessors of b
Derive(d, b) ==
    Declared(InitSubclass(d.cname, d.body, Inherited(b), b.props, d.url, registry))

\* rec.name for an attribute has_many set on the record
DoChild(a) ==
    /\ rec # None
    /\ a \in DOMAIN rec.attrs
    /\ Finish("child", None, None, [name |-> a],
              Outcome(<<>>, "", "", 0, ClassValue(rec.attrs[a]), rec, registry), 0)

NextDecl ==
    \/ \E d \in DeclCatalogue : d.base = "" /\ Declare(d)
    \/ \E d \in DeclCatalogue, b \in declared : d.base = b.cname /\ Derive(d, b)
    \/ \E c \in declared, f \in DeclFieldMaps : NewRecord(c, f)
    \/ \E kw \in DeclUpdateArgs, resp \in OkResponses : DoUpdate(kw, resp)
    \/ \E a \in ChildNames : DoChild(a)

SpecDecl == Init /\ [][NextDecl]_vars

(***************************************************************************)
(* Properties                                                              *)
(***************************************************************************)
\* the class of the latest of the register calls log[1..i] whose name has
\* the normalized form of n, or None
RECURSIVE LatestRegistered(_, _, _)
LatestRegistered(log, n, i) ==
    IF i = 0 THEN None
    ELSE IF Underscore(log[i].name) = Underscore(n) THEN log[i].cls
    ELSE LatestRegistered(log, n, i - 1)

\* C1: after any sequence of register calls, resolve(n) returns the type of
\* the latest call whose name has the normalized form of n, whether n is in
\* camel case or underscored, and None only when there was no such call;
\* the resolve call the application made last returned that type.
ResolveReturnsLatest ==
    /\ \A n \in RegNames :
          Resolve(registry, n) = LatestRegistered(regLog, n, Len(regLog))
    /\ last.op = "resolve" =>
          last.value = ClassValue(LatestRegistered(regLog, last.arg.name, Len(regLog)))

\* a name was registered in camel case with one type, then in underscored
\* form with another, and a resolve of the camel-case name returned the second
ResolvedReRegistered ==
    /\ last.op = "resolve"
    /\ last.arg.name = "BlogPost"
    /\ \E i, j \in 1..Len(regLog) :
          /\ i < j
          /\ regLog[i].name = "BlogPost"
          /\ regLog[j].name = "blog_post"
          /\ regLog[i].cls # regLog[j].cls
          /\ \A k \in (j + 1)..Len(regLog) : Underscore(regLog[k].name) # "blog_post"
          /\ last.value = ClassValue(regLog[j].cls)

ScopedChildQueriesItsPath ==
    /\ (/\ last.op = "new"
        /\ Attr(last.target, "path") = "posts"
        /\ HasAttr(last.target, "has_many")
        /\ "id" \in DOMAIN last.arg
        /\ last.arg["id"] = "7")
       => (/\ last.err = ""
           /\ "comments" \in DOMAIN rec.attrs
           /\ Attr(rec.attrs["comments"], "path") = "posts/7/comments")
    /\ (/\ last.op = "all"
        /\ Attr(last.target, "path") = "posts/7/comments")
       => sent = <<Request("GET", UrlJoin(Attr(last.target, "url"), "posts/7/comments"),
                           None, None)>>

\* the request C4 names for the operation op of a belongs_to accessor on a
\* record of class cls with the given fields
OwnerRequest(op, cls, template, fields, body) ==
    Request(CASE op = "get" -> "GET" [] op = "set" -> "PUT" [] OTHER -> "DELETE",
            UrlJoin(Attr(cls, "url"), Interpolate(template, fields).value),
            IF op = "set" THEN body ELSE None, None)

\* C4: each read, assignment and delete of the accessor author that
\* belongs_to = "author" installs sends exactly one request (GET, PUT with
\* the assigned value as its body, DELETE) to the base URL joined with
\* authors/:author_id interpolated against the record's fields, the repeated
\* ones included, and leaves the record's fields as they were.
BelongsToSendsOneRequest ==
    (/\ last.op \in {"get", "set", "del"}
     /\ last.entry.kind = "belongs_to"
     /\ last.entry.accessor = "author"
     /\ Interpolate(last.entry.template, last.before).ok)
    => (/\ last.entry.template = "authors/:author_id"
        /\ sent = <<OwnerRequest(last.op, rec.cls, last.entry.template, last.before,
                                 last.arg)>>
        /\ rec.fields = last.before)

\* C5: a read of a has_one accessor answered with 404 returns the absence
\* result and raises nothing; answered with any other status outside
\* 200..299 it raises the HTTP status error.
HasOneAbsentOn404 ==
    (/\ last.op = "get"
     /\ last.entry.kind = "has_one"
     /\ last.status # 0)
    => (/\ last.status = 404 => last.err = "" /\ last.value = NoValue
        /\ (last.status \notin 200..299 /\ last.status # 404) => last.err = "HTTPError")

\* C6: an operation whose request is answered with a status outside
\* 200..299 raises the HTTP status error (but for the has_one read on 404)
\* and returns no Record and no sequence.
NonSuccessStatusRaises ==
    (/\ last.status # 0
     /\ last.status \notin 200..299
     /\ ~(last.op = "get" /\ last.entry.kind = "has_one" /\ last.status = 404))
    => (last.err = "HTTPError" /\ last.value = NoValue)

\* the positions of the placeholders of t; the matches of the regular
\* expression never overlap, since a key holds no colon
PlaceholderPositions(t) == {i \in 1..Len(t) : IsPlaceholderAt(t, i)}

\* the positions of the placeholders of t whose key m lacks
AbsentPositions(t, m) == {i \in PlaceholderPositions(t) : KeyAt(t, i) \notin DOMAIN m}

Least(S) == CHOOSE x \in S : \A y \in S : x <= y

\* the operations that call interpolate, and the template each passes to
\* its first call
InterpolatingOps == {"interpolate", "save", "destroy", "get", "set", "del"}

FirstTemplate ==
    CASE last.op = "interpolate" -> last.arg.template
      [] last.op \in {"save", "destroy"} -> InstanceTemplate(rec)
      [] OTHER -> last.entry.template

\* C7: when the template has a placeholder the fields lack, interpolate
\* raises KeyError naming the leftmost such placeholder and returns no
\* string; called by save, destroy or an accessor, the operation ends with
\* that error, has sent no request and leaves the fields as they were; no
\* KeyError of any of these operations comes after a request.
MissingFieldFailsFirst ==
    last.op \in InterpolatingOps
    => (/\ AbsentPositions(FirstTemplate, last.before) # {}
           => (/\ last.err = "KeyError"
               /\ last.key = KeyAt(FirstTemplate,
                                   Least(AbsentPositions(FirstTemplate, last.before)))
               /\ last.value = NoValue
               /\ sent = <<>>
               /\ rec.fields = last.before)
        /\ last.err = "KeyError" => (sent = <<>> /\ last.value = NoValue))

\* an accessor read whose template has a placeholder the fields provide
\* followed by one they lack ended with the KeyError of the second
SecondPlaceholderMissing ==
    /\ last.op = "get"
    /\ last.err = "KeyError"
    /\ sent = <<>>
    /\ Cardinality(PlaceholderPositions(FirstTemplate)) = 2
    /\ Cardinality(AbsentPositions(FirstTemplate, last.before)) = 1
    /\ Least(PlaceholderPositions(FirstTemplate))
           \notin AbsentPositions(FirstTemplate, last.before)
    /\ last.key = "b"

\* the colons of t that start no placeholder
LiteralColons(t) == {i \in 1..Len(t) : At(t, i) = ":" /\ ~IsPlaceholderAt(t, i)}

\* by how much the replacements of the placeholders of t before i move the
\* character at i
RECURSIVE Shift(_, _, _)
Shift(t, m, i) ==
    IF i <= 1 THEN 0
    ELSE Shift(t, m, i - 1)
         + (IF IsPlaceholderAt(t, i - 1)
            THEN Len(m[KeyAt(t, i - 1)]) - Len(KeyAt(t, i - 1)) - 1
            ELSE 0)

\* the keys of the placeholders of t
Keys(t) == {KeyAt(t, i) : i \in PlaceholderPositions(t)}

\* no value a placeholder of t is replaced with holds a colon, and no
\* placeholder of t comes right after a colon
Plain(t, m) ==
    /\ \A k \in Keys(t) : \A i \in 1..Len(m[k]) : At(m[k], i) # ":"
    /\ \A i \in PlaceholderPositions(t) : i = 1 \/ At(t, i - 1) # ":"

\* the application's last call of interpolate had every placeholder provided
InterpolatedProvided ==
    /\ last.op = "interpolate"
    /\ AbsentPositions(last.arg.template, last.before) = {}

\* the colons of the template that start no placeholder are in the result,
\* each moved by the replacements before it
ColonsKept ==
    \A i \in LiteralColons(last.arg.template) :
        /\ i + Shift(last.arg.template, last.before, i) \in 1..Len(last.value.body)
        /\ At(last.value.body, i + Shift(last.arg.template, last.before, i)) = ":"

\* C8 as claimed: when the fields provide every placeholder of the template,
\* interpolate succeeds, its result holds none of the placeholders of the
\* template, and every colon that starts no placeholder is kept.
ResultHoldsNoPlaceholder ==
    InterpolatedProvided
    => (/\ last.err = ""
        /\ last.value.kind = "raw"
        /\ \A i \in PlaceholderPositions(last.value.body) :
              KeyAt(last.value.body, i) \notin Keys(last.arg.template)
        /\ ColonsKept)

\* C8 as amended: when the fields provide every placeholder of the template,
\* interpolate succeeds and every colon that starts no placeholder is kept;
\* when moreover no replacing value holds a colon and no placeholder comes
\* right after a colon, the result holds no placeholder at all.
PlainResultHoldsNoPlaceholder ==
    InterpolatedProvided
    => (/\ last.err = ""
        /\ last.value.kind = "raw"
        /\ Plain(last.arg.template, last.before)
              => PlaceholderPositions(last.value.body) = {}
        /\ ColonsKept)

\* interpolate replaced the placeholder of a two-letter key by a value of
\* one letter and kept the colon after it, two places further left
ReplacedKeptColon ==
    /\ InterpolatedProvided
    /\ last.err = ""
    /\ Plain(last.arg.template, last.before)
    /\ \E i \in LiteralColons(last.arg.template) :
          Shift(last.arg.template, last.before, i) = 0 - 2
    /\ PlaceholderPositions(last.value.body) = {}

\* C9: update(fields) merges the fields into the record and then sends
\* exactly one PUT to the collection endpoint followed by the identifier, with
\* the merged fields as its body; whatever the answer, the record keeps the
\* merged values and its other fields.
UpdatePutsMergedFields ==
    last.op = "update"
    => (/\ rec.fields = Merge(last.before, last.arg)
        /\ Attr(rec.cls, "uid") \in DOMAIN rec.fields
              => sent = <<Request("PUT",
                                  UrlJoin(Attr(rec.cls, "url"), Attr(rec.cls, "path"))
                                      \o "/" \o rec.fields[Attr(rec.cls, "uid")],
                                  rec.fields, None)>>)

\* C10: a read of an accessor whose target name is not registered when the
\* read is made raises a resolution error naming the target and returns no
\* untyped result made of the response body.
UnresolvedReadRaises ==
    (/\ last.op = "get"
     /\ last.status # 0
     /\ ~RaisesForStatus(last.status)
     /\ Resolve(registry, last.entry.other) = None)
    => (/\ last.err = "ResolutionError"
        /\ last.key = last.entry.other
        /\ last.value.kind # "raw")


\* the accessors the association definition def of kind k names: the
\* underscored names for belongs_to and has_one, their plurals for has_many
NamedAccessors(k, def) ==
    { IF k = "has_many" THEN Pluralize(Underscore(n)) ELSE Underscore(n) :
        n \in DOMAIN def.items }

AcceptedShapes == {"str", "set", "dict"}

\* C11: a belongs_to, has_one or has_many declaration that is a single
\* name, a set of names or a mapping from name to options installs one
\* accessor per name (those of has_many on each record constructed); a
\* declaration of any other shape makes the class statement raise a shape
\* error.
OtherShapeRaisesShapeError ==
    /\ last.op = "declare"
       => \A k \in {"belongs_to", "has_one", "has_many"} :
             HasAttr(last.target, k)
             => IF Attr(last.target, k).shape \in AcceptedShapes
                THEN k # "has_many"
                     => NamedAccessors(k, Attr(last.target, k))
                            \subseteq DOMAIN last.target.props
                ELSE last.err = "ShapeError"
    /\ (/\ last.op = "new"
        /\ last.err = ""
        /\ HasAttr(last.target, "has_many")
        /\ Attr(last.target, "has_many").shape \in AcceptedShapes)
       => NamedAccessors("has_many", Attr(last.target, "has_many"))
              \subseteq DOMAIN rec.attrs

\* C12: each read of an attribute has_many set on a record gives a child
\* type made from the record's fields as they are when the read is made:
\* its collection path holds the record's identifier of that moment, also
\* after the identifier was changed.
ChildFollowsIdentifier ==
    (/\ last.op = "child"
     /\ Attr(rec.cls, "uid") \in DOMAIN rec.fields)
    => (/\ last.value.kind = "class"
        /\ Attr(last.value.cls, "path")
              = Attr(rec.cls, "path") \o "/" \o rec.fields[Attr(rec.cls, "uid")]
                    \o "/" \o last.arg.name)

\* the declared type names whose class statement sets no name
ImplicitlyNamed == {d.cname : d \in {x \in DeclCatalogue : "name" \notin DOMAIN x.body}}

\* C13: a class statement without an explicit name gives the class the
\* underscored form of its own type name as its name and registers it under
\* that name, and it leaves resolve as it was for the name of every declared
\* type of another type name, the type it derives from included.
OwnNameRegistered ==
    [][(/\ last'.op = "declare"
        /\ last'.target.cname \in ImplicitlyNamed)
       => (/\ Attr(last'.target, "name") = Underscore(last'.target.cname)
           /\ Resolve(registry', last'.target.cname) = last'.target
           /\ \A c \in declared :
                 c.cname # last'.target.cname
                 => Resolve(registry', c.cname) = Resolve(registry, c.cname))]_vars

\* the class methods that construct records from a response body
ConstructingOps == {"all", "where", "find_by", "nth", "find", "create"}

\* C14: constructing a record succeeds and sends no request, whatever the
\* fields and whatever is registered: a constructor call gives a record of
\* the class with the fields passed, with one attribute per has_many name
\* also when the identifier is absent or the target is not registered; a
\* class method whose request was answered without an error status ends
\* without an error.
ConstructionSucceeds ==
    /\ last.op = "new"
       => (/\ last.err = ""
           /\ sent = <<>>
           /\ rec.cls = last.target
           /\ rec.fields = last.arg
           /\ HasAttr(last.target, "has_many")
              => NamedAccessors("has_many", Attr(last.target, "has_many"))
                     \subseteq DOMAIN rec.attrs)
    /\ (/\ last.op \in ConstructingOps
        /\ last.status # 0
        /\ ~RaisesForStatus(last.status))
       => last.err = ""

\* C15: every resource type, declared by the application (deriving from
\* Active or from a declared type, with or without a url of its own) or
\* set on a record by has_many, has as its endpoint its own url joined with
\* its own collection path.
EndpointIsUrlJoinedWithPath ==
    \A c \in ClassTargets :
        /\ HasAttr(c, "endpoint")
        /\ Attr(c, "endpoint") = UrlJoin(Attr(c, "url"), Attr(c, "path"))

\* C16: only a class statement of the application changes the registry: a
\* constructor call, a read of an attribute, update and every other
\* operation leave resolve(n) as it was for every name n, also when a
\* has_many attribute has the name a type is registered under.
OnlyDeclarationRegisters ==
    [][last'.op # "declare"
       => \A n \in DOMAIN registry \cup DOMAIN registry' :
             Resolve(registry', n) = Resolve(registry, n)]_vars

\* the path template of the request of the application's last operation:
\* collection path and identifier for save and destroy, the accessor's
\* template for a belongs_to accessor
PathTemplate ==
    IF last.op \in {"save", "destroy"}
    THEN Attr(rec.cls, "path") \o "/:" \o Attr(rec.cls, "uid")
    ELSE last.entry.template

\* the application's last operation was save, destroy or an operation of a
\* belongs_to accessor
TemplatedOp ==
    \/ last.op \in {"save", "destroy"}
    \/ last.op \in {"get", "set", "del"} /\ last.entry.kind = "belongs_to"

\* C17: save, destroy and the read, assignment and delete of a belongs_to
\* accessor send their request to the base URL joined with the path template
\* interpolated once against the record's fields, whenever the fields
\* provide the placeholders of the path template: a base URL with a port is
\* not interpolated, and a value holding placeholder text is not
\* substituted again.
PathInterpolatedOnce ==
    (/\ TemplatedOp
     /\ Interpolate(PathTemplate, rec.fields).ok)
    => (/\ last.err # "KeyError"
        /\ Len(sent) = 1
        /\ sent[1].url = UrlJoin(Attr(rec.cls, "url"),
                                 Interpolate(PathTemplate, rec.fields).value))

=============================================================================
